---- MODULE Spec2Model ----
(***************************************************************************)
(* Model of run.py: the envoy wasm-vm memory benchmark.                    *)
(*                                                                         *)
(*  - Spec        the batch of main(): 27 rounds of                        *)
(*                start_envoy_and_collect_vm_info, then the report phase.  *)
(*  - SpecReport  write_report / parse_report on a character-level file.   *)
(*  - SpecDelta   calculate_delta on integer sequences.                    *)
(*  - SpecAnalyze analyze_report_data on parsed report data.               *)
(*  - SpecGrep    grep_envoy_pid on process-listing text.                  *)
(*                                                                         *)
(* Text is a sequence of one-character strings, so that formatting and     *)
(* parsing are computed the way the code computes them.                    *)
(* The interpreter is Python >= 3.10: traceback.print_exception(err) with  *)
(* one argument is only valid there.                                       *)
(***************************************************************************)
EXTENDS Integers, Sequences, FiniteSets, TLC

VARIABLES
    \* ---- the batch (main and start_envoy_and_collect_vm_info) ----
    pc,            \* position of the controller process
    round,         \* index in main's list of the round being run (0: none yet)
    envoy_proc,    \* the orchestrator's local envoy_proc: 0 is None, k the child of round k
    exc,           \* exception in flight / that ended the program
    elapsed,       \* time.time() - start inside start_envoy
    pipe,          \* the child's merged stdout/stderr as readline sees it
    unkilled,      \* children spawned by Popen and not sent kill
    nblocks,       \* blocks appended to the report file
    blocksAtStart, \* nblocks when the current round was called
    cfgBlocks,     \* blocks written for the label of the current round
    short,         \* some earlier label has fewer than 2 blocks in the report
    fail,          \* which step of the current round failed
    slept,         \* the pause after kill was taken in the current round
    \* ---- write_report / parse_report ----
    file,          \* content of the report file (characters)
    written,       \* the (label, status) inputs written so far
    parsed,        \* result of parse_report, or NotRun
    \* ---- calculate_delta ----
    data,          \* argument of calculate_delta
    delta,         \* its result, or NotRun
    \* ---- analyze_report_data ----
    report_data,   \* argument of analyze_report_data
    summary,       \* its result, or NotRun
    appended,      \* main appended the summary to the report file
    \* ---- grep_envoy_pid ----
    ps_out,        \* stdout of "ps aux" (characters)
    envoy_path,    \* the path prefix looked for
    grep_result    \* result of grep_envoy_pid, or NotRun

batchVars   == <<pc, round, envoy_proc, exc, elapsed, pipe, unkilled, nblocks,
                 blocksAtStart, cfgBlocks, short, fail, slept>>
reportVars  == <<file, written, parsed>>
deltaVars   == <<data, delta>>
analyzeVars == <<report_data, summary, appended>>
grepVars    == <<ps_out, envoy_path, grep_result>>
vars == <<batchVars, reportVars, deltaVars, analyzeVars, grepVars>>

NotRun == [status |-> "notrun"]

(***************************************************************************)
(* Program constants and bounds                                            *)
(***************************************************************************)
NumRounds      == 27   \* calls of start_envoy_and_collect_vm_info in main
RoundsPerLabel == 3    \* <label>_1_vm, <label>_2_vm, <label>_3_vm
Timeout        == 5    \* "timeout in 5s"
MaxElapsed     == 7    \* bound: the clock of start_envoy is followed up to here

(***************************************************************************)
(* Text: characters, str(int), int(str), prefixes, lines                   *)
(***************************************************************************)
Digits == {"0", "1", "2", "3", "4", "5", "6", "7", "8", "9"}
\* what \s matches among the characters that occur here
Space  == {" ", "\t", "\n"}

DigitChar(d) == <<"0", "1", "2", "3", "4", "5", "6", "7", "8", "9">>[d + 1]
DigitVal(c)  == CHOOSE d \in 0..9 : DigitChar(d) = c

\* str(n) for an int
RECURSIVE NatStr(_)
NatStr(n) == IF n < 10 THEN <<DigitChar(n)>>
             ELSE Append(NatStr(n \div 10), DigitChar(n % 10))
IntStr(n) == IF n < 0 THEN <<"-">> \o NatStr(-n) ELSE NatStr(n)

\* int(s) for a string of digits
RECURSIVE StrInt(_)
StrInt(s) == IF s = <<>> THEN 0
             ELSE 10 * StrInt(SubSeq(s, 1, Len(s) - 1)) + DigitVal(s[Len(s)])

\* s.startswith(p)
StartsWith(s, p) ==
    /\ Len(s) >= Len(p)
    /\ \A k \in 1..Len(p) : s[k] = p[k]

\* s[i:].startswith(p), 1-based
StartsWithAt(s, i, p) ==
    /\ Len(s) >= i - 1 + Len(p)
    /\ \A k \in 1..Len(p) : s[i - 1 + k] = p[k]

\* first index >= i whose character is not in S (a greedy run of S from i)
RECURSIVE SkipWhile(_, _, _)
SkipWhile(s, i, S) ==
    IF i <= Len(s) /\ s[i] \in S THEN SkipWhile(s, i + 1, S) ELSE i

\* first index >= i whose character is c, or Len(s) + 1
RECURSIVE Find(_, _, _)
Find(s, i, c) ==
    IF i <= Len(s) /\ s[i] # c THEN Find(s, i + 1, c) ELSE i

\* "for line in f": the lines of a text file, each with its newline; a last
\* line without newline is a line too
RECURSIVE LinesFrom(_, _)
LinesFrom(s, i) ==
    IF i > Len(s) THEN <<>>
    ELSE LET e == Find(s, i, "\n")
             last == IF e > Len(s) THEN Len(s) ELSE e
         IN  <<SubSeq(s, i, last)>> \o LinesFrom(s, last + 1)
FileLines(s) == LinesFrom(s, 1)

\* str.split(sep): the pieces between occurrences of the character sep
RECURSIVE SplitFrom(_, _, _)
SplitFrom(s, i, sep) ==
    LET e == Find(s, i, sep)
    IN  IF e > Len(s) THEN <<SubSeq(s, i, Len(s))>>
        ELSE <<SubSeq(s, i, e - 1)>> \o SplitFrom(s, e + 1, sep)
Split(s, sep) == SplitFrom(s, 1, sep)

RECURSIVE Concat(_)
Concat(ss) == IF ss = <<>> THEN <<>> ELSE Head(ss) \o Concat(Tail(ss))

\* a Python dict: a function on the set of its keys
EmptyDict    == [k \in {} |-> 0]
Put(d, k, v) == [x \in (DOMAIN d) \cup {k} |-> IF x = k THEN v ELSE d[x]]

\* the text of the names used as dict keys and as line prefixes
KeyText ==
    [VmPeak |-> <<"V", "m", "P", "e", "a", "k">>, VmSize |-> <<"V", "m", "S", "i", "z", "e">>, VmHWM |-> <<"V", "m", "H", "W", "M">>,
     VmRSS |-> <<"V", "m", "R", "S", "S">>, RssAnon |-> <<"R", "s", "s", "A", "n", "o", "n">>, RssFile |-> <<"R", "s", "s", "F", "i", "l", "e">>,
     RssShmem |-> <<"R", "s", "s", "S", "h", "m", "e", "m">>, Threads |-> <<"T", "h", "r", "e", "a", "d", "s">>,
     Name |-> <<"N", "a", "m", "e">>, Pid |-> <<"P", "i", "d">>]

(***************************************************************************)
(* read_proc_status, write_report                                          *)
(***************************************************************************)
\* read_proc_status: keeps the lines that start with Vm, Rss or Threads.
\* f is the content of /proc/<pid>/status.
read_proc_status(f) ==
    LET lines == FileLines(f)
        keep(line) == \/ StartsWith(line, <<"V", "m">>)
                      \/ StartsWith(line, <<"R", "s", "s">>)
                      \/ StartsWith(line, <<"T", "h", "r", "e", "a", "d", "s">>)
    IN  Concat([i \in 1..Len(lines) |-> IF keep(lines[i]) THEN lines[i] ELSE <<>>])

\* the fence line of a block, three backquotes and a newline; "BQ" stands for
\* the backquote character, which a TLA+ string cannot hold
Fence == <<"BQ", "BQ", "BQ", "\n">>

\* write_report: the report file after appending the block (os.linesep is
\* "\n": /proc exists on Linux only)
write_report(f, key, content) ==
    f \o <<"#", "#", " ">> \o key \o <<"\n">> \o Fence \o content \o Fence
      \o <<"-", "-", "-">> \o <<"\n">>

(***************************************************************************)
(* parse_vmdata, parse_threads, parse_report                               *)
(***************************************************************************)
AssertionError == [status |-> "AssertionError"]

\* re.match("## (\S+)_(\d+)_vm", line): the groups, or <<>> for None.
\* \S+ is greedy, so of the possible ends of the name the last one wins.
re_match_header(line) ==
    LET n == Len(line)
        ok(i, j) == /\ i + 2 <= j /\ j + 3 <= n
                    /\ \A k \in 4..i : line[k] \notin Space
                    /\ line[i + 1] = "_"
                    /\ \A k \in (i + 2)..j : line[k] \in Digits
                    /\ StartsWithAt(line, j + 1, <<"_", "v", "m">>)
        ends == {i \in 4..n : \E j \in 4..n : ok(i, j)}
    IN  IF ~StartsWith(line, <<"#", "#", " ">>) \/ ends = {} THEN <<>>
        ELSE LET i == CHOOSE x \in ends : \A y \in ends : y <= x
                 j == CHOOSE x \in 4..n : ok(i, x) /\ \A y \in 4..n : ok(i, y) => y <= x
             IN  <<SubSeq(line, 4, i), SubSeq(line, i + 2, j)>>

\* re.match(f"{key}:\s+(\d+)\s+kB", line); assert m is not None; int(group)
parse_vmdata(line, key) ==
    LET p  == Len(KeyText[key]) + 2          \* after "<key>:"
        a  == SkipWhile(line, p, Space)      \* \s+
        b  == SkipWhile(line, a, Digits)     \* (\d+)
        c  == SkipWhile(line, b, Space)      \* \s+
    IN  IF /\ StartsWith(line, KeyText[key] \o <<":">>)
           /\ a > p /\ b > a /\ c > b
           /\ StartsWithAt(line, c, <<"k", "B">>)
        THEN [status |-> "ok", value |-> StrInt(SubSeq(line, a, b - 1))]
        ELSE AssertionError

\* re.match(f"{key}:\s+(\d+)", line); assert m is not None; int(group)
parse_threads(line, key) ==
    LET p  == Len(KeyText[key]) + 2
        a  == SkipWhile(line, p, Space)
        b  == SkipWhile(line, a, Digits)
    IN  IF /\ StartsWith(line, KeyText[key] \o <<":">>)
           /\ a > p /\ b > a
        THEN [status |-> "ok", value |-> StrInt(SubSeq(line, a, b - 1))]
        ELSE AssertionError

\* the elif chain of parse_report, in its order
MetricChain == <<"VmSize", "VmRSS", "RssAnon", "RssFile", "RssShmem", "Threads">>

parse_metric(line, key) ==
    IF key = "Threads" THEN parse_threads(line, key) ELSE parse_vmdata(line, key)

\* one iteration of the loop of parse_report; st is the pair of locals
\* memory_info, round, with the status of the function so far
parse_line_NoReset(st, line) ==
    IF StartsWith(line, <<"#", "#">>)
    THEN LET m == re_match_header(line)
         IN  IF m = <<>> THEN [st EXCEPT !.status = "AssertionError"]
             ELSE [st EXCEPT !.round = Put(Put(@, "vm_name", m[1]), "vm_insts", m[2])]
    ELSE IF StartsWith(line, <<"-", "-">>)
    THEN [st EXCEPT !.memory_info = Append(@, st.round)]
    ELSE LET hits == {k \in 1..Len(MetricChain) : StartsWith(line, KeyText[MetricChain[k]])}
         IN  IF hits = {} THEN st
             ELSE LET key == MetricChain[CHOOSE k \in hits : \A h \in hits : k <= h]
                      v   == parse_metric(line, key)
                  IN  IF v.status # "ok" THEN [st EXCEPT !.status = "AssertionError"]
                      ELSE [st EXCEPT !.round = Put(@, key, v.value)]

parse_line(st, line) ==
    IF StartsWith(line, <<"#", "#">>)
    THEN LET m == re_match_header(line)
         IN  IF m = <<>> THEN [st EXCEPT !.status = "AssertionError"]
             ELSE [st EXCEPT !.round = Put(Put(@, "vm_name", m[1]), "vm_insts", m[2])]
    ELSE IF StartsWith(line, <<"-", "-">>)
    THEN [st EXCEPT !.memory_info = Append(@, st.round), !.round = EmptyDict]
    ELSE LET hits == {k \in 1..Len(MetricChain) : StartsWith(line, KeyText[MetricChain[k]])}
         IN  IF hits = {} THEN st
             ELSE LET key == MetricChain[CHOOSE k \in hits : \A h \in hits : k <= h]
                      v   == parse_metric(line, key)
                  IN  IF v.status # "ok" THEN [st EXCEPT !.status = "AssertionError"]
                      ELSE [st EXCEPT !.round = Put(@, key, v.value)]

RECURSIVE parse_loop(_, _, _)
parse_loop(lines, i, st) ==
    IF i > Len(lines) \/ st.status # "ok" THEN st
    ELSE parse_loop(lines, i + 1, parse_line(st, lines[i]))

\* parse_report on the content f of the report file
parse_report(f) ==
    LET st == parse_loop(FileLines(f), 1,
                         [status |-> "ok", memory_info |-> <<>>, round |-> EmptyDict])
    IN  IF st.status = "ok" THEN [status |-> "ok", value |-> st.memory_info]
        ELSE AssertionError

(***************************************************************************)
(* calculate_delta, analyze_report_data                                    *)
(***************************************************************************)
ZeroDivisionError == [status |-> "ZeroDivisionError"]
KeyError          == [status |-> "KeyError"]

RECURSIVE Sum(_)
Sum(s) == IF s = <<>> THEN 0 ELSE Head(s) + Sum(Tail(s))

\* the loop of calculate_delta: i is the 1-based position, prev and deltas
\* are the locals
RECURSIVE delta_loop_PrevStuck(_, _, _, _)
delta_loop_PrevStuck(d, i, prev, deltas) ==
    IF i > Len(d) THEN deltas
    ELSE IF i = 1 THEN delta_loop_PrevStuck(d, 2, d[1], deltas)
    ELSE delta_loop_PrevStuck(d, i + 1, prev, Append(deltas, d[i] - prev))

RECURSIVE delta_loop(_, _, _, _)
delta_loop(d, i, prev, deltas) ==
    IF i > Len(d) THEN deltas
    ELSE IF i = 1 THEN delta_loop(d, 2, d[1], deltas)
    ELSE delta_loop(d, i + 1, d[i], Append(deltas, d[i] - prev))

\* return *deltas, sum(deltas) / len(deltas)
\* The float quotient is kept exact, as the pair of its numerator and
\* denominator.
calculate_delta_PrevStuck(d) ==
    LET deltas == delta_loop_PrevStuck(d, 1, 0, <<>>)
    IN  IF Len(deltas) = 0 THEN ZeroDivisionError
        ELSE [status |-> "ok",
              value |-> Append(deltas, [num |-> Sum(deltas), den |-> Len(deltas)])]

calculate_delta_Guarded(d) ==
    LET deltas == delta_loop(d, 1, 0, <<>>)
    IN  IF Len(deltas) = 0 THEN [status |-> "ok", value |-> <<[num |-> 0, den |-> 1]>>]
        ELSE [status |-> "ok",
              value |-> Append(deltas, [num |-> Sum(deltas), den |-> Len(deltas)])]

calculate_delta(d) ==
    LET deltas == delta_loop(d, 1, 0, <<>>)
    IN  IF Len(deltas) = 0 THEN ZeroDivisionError
        ELSE [status |-> "ok",
              value |-> Append(deltas, [num |-> Sum(deltas), den |-> Len(deltas)])]

\* str(x) for the float x = q.num / q.den: sign, integer part, ".", and the
\* digits of the fraction by long division ("0" when there is none).  Exact
\* for a quotient with a short finite expansion, which is every mean of at
\* most two deltas.
RECURSIVE FracDigits(_, _, _)
FracDigits(r, d, k) ==
    IF r = 0 \/ k = 0 THEN <<>>
    ELSE <<DigitChar((10 * r) \div d)>> \o FracDigits((10 * r) % d, d, k - 1)
FloatStr(q) ==
    LET a    == IF q.num < 0 THEN -q.num ELSE q.num
        frac == FracDigits(a % q.den, q.den, 16)
    IN  (IF q.num < 0 THEN <<"-">> ELSE <<>>) \o NatStr(a \div q.den) \o <<".">>
        \o (IF frac = <<>> THEN <<"0">> ELSE frac)

\* "|".join(cells)
RECURSIVE Join(_, _)
Join(sep, cells) ==
    IF cells = <<>> THEN <<>>
    ELSE IF Len(cells) = 1 THEN cells[1]
    ELSE cells[1] \o sep \o Join(sep, Tail(cells))

\* fill_a_line(data, vm, key): rounds is the list of dicts of one label
fill_a_line(rounds, vm, key) ==
    IF \E i \in 1..Len(rounds) : key \notin DOMAIN rounds[i] THEN KeyError
    ELSE LET key_data  == [i \in 1..Len(rounds) |-> rounds[i][key]]
             key_delta == calculate_delta(key_data)
         IN  IF key_delta.status # "ok" THEN key_delta
             ELSE LET n == Len(key_delta.value)
                      deltaCells == [i \in 1..n |->
                                       IF i < n THEN IntStr(key_delta.value[i])
                                       ELSE FloatStr(key_delta.value[i])]
                  IN  [status |-> "ok",
                       value |-> <<"|">> \o vm \o <<"|">> \o KeyText[key] \o <<"|">>
                                 \o Join(<<"|">>, [i \in 1..Len(rounds) |-> IntStr(key_data[i])])
                                 \o <<"|">>
                                 \o Join(<<"|">>, deltaCells)
                                 \o <<"|">> \o <<"\n">>]

\* the list of labels and the metrics analyze_report_data makes rows for
Keys == << <<"v", "8">>, <<"w", "a", "s", "m", "t", "i", "m", "e">>, <<"w", "a", "m", "r", "-", "5", "-", "1", "8", "-", "2", "2">>, <<"w", "a", "m", "r", "-", "1", "-", "1", "-", "0">>, <<"w", "a", "m", "r", "-", "1", "-", "1", "-", "0", "-", "d", "i", "s">>,
           <<"w", "a", "m", "r", "-", "f", "b", "a", "c">>, <<"w", "a", "m", "r", "-", "f", "b", "a", "c", "-", "d", "i", "s">>, <<"w", "a", "m", "r", "-", "c", "l", "o", "n", "e">>, <<"w", "a", "m", "r", "-", "c", "l", "o", "n", "e", "-", "d", "i", "s">> >>
RowMetrics == <<"VmSize", "VmRSS", "RssAnon", "RssFile", "Threads">>

SummaryHeader ==
    <<"#", " ", "S", "u", "m", "m", "a", "r", "y", " ">> \o <<"\n", "\n">> \o <<"C", "o", "l", "l", "e", "c", "t", " ", "f", "r", "o", "m", " ", "*", "/", "p", "r", "o", "c", "/", "[", "p", "i", "d", "]", "/", "s", "t", "a", "t", "u", "s", "*">> \o <<"\n", "\n">>
    \o <<"|", " ", "w", "a", "s", "m", " ", "v", "m", " ", "|", " ", "v", "m", " ", "i", "n", "s", "t", " ", "a", "m", "o", "u", "n", "t", " ", "|", "1", " ", "v", "m", " ", "|", " ", "2", " ", "v", "m", "s", " ", "|", " ", "3", " ", "v", "m", "s", " ", "|", " ", "d", "e", "l", "t", "a", "_", "1", " ", "|", " ", "d", "e", "l", "t", "a", "_", "2", " ", "|", " ", "d", "e", "l", "t", "a", "_", "a", "v", "g", " ", "|">>
    \o <<"\n">> \o <<"|", " ", "-", "-", " ", "|", " ", "-", "-", " ", "|", " ", "-", "-", " ", "|", " ", "-", "-", " ", "|", " ", "-", "-", " ", "|", " ", "-", "-", " ", "|", " ", "-", "-", " ", "|", " ", "-", "-", " ", "|">> \o <<"\n">>

\* rounds = [r for r in report_data if r["vm_name"] == key]
RoundsOf(rd, key) == SelectSeq(rd, LAMBDA r : r["vm_name"] = key)

\* the rows of the table, label by label and metric by metric; the first
\* error ends the function
RECURSIVE analyze_rows(_, _, _, _, _)
analyze_rows(rd, k, rounds, m, result) ==
    IF m > Len(RowMetrics)
    THEN IF k = Len(Keys) THEN [status |-> "ok", value |-> result]
         ELSE analyze_rows(rd, k + 1, RoundsOf(rd, Keys[k + 1]), 1, result)
    ELSE LET line == fill_a_line(rounds, Keys[k], RowMetrics[m])
         IN  IF line.status # "ok" THEN line
             ELSE analyze_rows(rd, k, rounds, m + 1, result \o line.value)

analyze_report_data(rd) == analyze_rows(rd, 1, RoundsOf(rd, Keys[1]), 1, SummaryHeader)

(***************************************************************************)
(* grep_envoy_pid                                                          *)
(***************************************************************************)
IndexError == [status |-> "IndexError"]

\* [t for t in proc_info.split(" ") if t]
Fields(row) == SelectSeq(Split(row, " "), LAMBDA t : t # <<>>)

\* the loop over p.stdout.split("\n"): the second field of the first row
\* whose eleventh field starts with path; 0 when the rows are used up
RECURSIVE grep_rows(_, _, _)
grep_rows(rows, i, path) ==
    IF i > Len(rows) THEN [status |-> "ok", found |-> FALSE, pid |-> <<>>]
    ELSE LET info_wo_empty == Fields(rows[i])
         IN  IF Len(info_wo_empty) = 0 THEN grep_rows(rows, i + 1, path)
             ELSE IF Len(info_wo_empty) < 11 THEN IndexError
             ELSE IF StartsWith(info_wo_empty[11], path)
                  THEN [status |-> "ok", found |-> TRUE, pid |-> info_wo_empty[2]]
             ELSE grep_rows(rows, i + 1, path)

\* grep_envoy_pid on the stdout of "ps aux".  found = FALSE is the return
\* value 0; otherwise pid is the text of the PID column.
grep_envoy_pid(out, path) == grep_rows(Split(out, "\n"), 1, path)

(***************************************************************************)
(* The batch                                                               *)
(***************************************************************************)
BatchIdle ==
    /\ pc = "main" /\ round = 0 /\ envoy_proc = 0 /\ exc = "none"
    /\ elapsed = 0 /\ pipe = "empty" /\ unkilled = {} /\ nblocks = 0
    /\ blocksAtStart = 0 /\ cfgBlocks = 0 /\ short = FALSE
    /\ fail = "none" /\ slept = FALSE

ReportIdle  == file = <<>> /\ written = <<>> /\ parsed = NotRun
DeltaIdle   == data = <<>> /\ delta = NotRun
AnalyzeIdle == report_data = <<>> /\ summary = NotRun /\ appended = FALSE
GrepIdle    == ps_out = <<>> /\ envoy_path = <<>> /\ grep_result = NotRun

Init == BatchIdle /\ ReportIdle /\ DeltaIdle /\ AnalyzeIdle /\ GrepIdle

NotBatch == UNCHANGED <<reportVars, deltaVars, analyzeVars, grepVars>>

\* main calls start_envoy_and_collect_vm_info for the next entry of its list;
\* envoy_proc = None; the symlink loop changes only the local envoy_path.
main_call_round ==
    /\ pc = "main" /\ round < NumRounds
    /\ round' = round + 1
    /\ pc' = "spawn"
    /\ envoy_proc' = 0
    /\ fail' = "none" /\ slept' = FALSE
    /\ blocksAtStart' = nblocks
    /\ IF round % RoundsPerLabel = 0
         THEN /\ cfgBlocks' = 0
              /\ short' = (short \/ (round > 0 /\ cfgBlocks < 2))
         ELSE UNCHANGED <<cfgBlocks, short>>
    /\ UNCHANGED <<exc, elapsed, pipe, unkilled, nblocks>>
    /\ NotBatch

\* start_envoy: Popen, start = time.time().  Popen raises OSError when the
\* executable cannot be run; that is not an AssertionError, so control goes
\* straight to the finally block.
start_envoy_spawn ==
    /\ pc = "spawn"
    /\ \/ /\ unkilled' = unkilled \cup {round}
          /\ elapsed' = 0 /\ pipe' = "empty"
          /\ pc' = "loop"
          /\ UNCHANGED <<exc, fail>>
       \/ /\ exc' = "OSError" /\ fail' = "spawn"
          /\ pc' = "kill"
          /\ UNCHANGED <<unkilled, elapsed, pipe>>
    /\ UNCHANGED <<round, envoy_proc, nblocks, blocksAtStart, cfgBlocks, short, slept>>
    /\ NotBatch

\* while time.time() - start < 5: ... else: assert("Reach a timeout" == None)
\* The assertion is raised inside start_envoy, so the assignment
\* envoy_proc = start_envoy(...) never happens.
start_envoy_loop ==
    /\ pc = "loop"
    /\ IF elapsed < Timeout
         THEN /\ pc' = "readline"
              /\ UNCHANGED <<exc, fail, elapsed, pipe>>
         ELSE /\ exc' = "AssertionError" /\ fail' = "timeout"
              /\ pc' = "except"
              /\ elapsed' = 0 /\ pipe' = "empty"
    /\ UNCHANGED <<round, envoy_proc, unkilled, nblocks, blocksAtStart, cfgBlocks, short, slept>>
    /\ NotBatch

\* outs = p.stdout.readline().strip(): returns when a line is there or at end
\* of file (''), and blocks otherwise.  On the marker: break, return p, and the
\* orchestrator assigns envoy_proc.
start_envoy_readline ==
    /\ pc = "readline"
    /\ pipe # "empty"
    /\ IF pipe = "marker"
         THEN /\ envoy_proc' = round
              /\ pc' = "sleep1"
              /\ elapsed' = 0 /\ pipe' = "empty"
         ELSE /\ pc' = "loop"
              /\ pipe' = IF pipe = "eof" THEN "eof" ELSE "empty"
              /\ UNCHANGED <<envoy_proc, elapsed>>
    /\ UNCHANGED <<round, exc, unkilled, nblocks, blocksAtStart, cfgBlocks, short, fail, slept>>
    /\ NotBatch

\* The child writes a line (with or without the readiness marker).
child_write ==
    /\ pc \in {"loop", "readline"} /\ pipe = "empty"
    /\ \E l \in {"line", "marker"} : pipe' = l
    /\ UNCHANGED <<pc, round, envoy_proc, exc, elapsed, unkilled, nblocks,
                   blocksAtStart, cfgBlocks, short, fail, slept>>
    /\ NotBatch

\* The child closes its output (it exited or crashed before the marker).
child_close ==
    /\ pc \in {"loop", "readline"} /\ pipe = "empty"
    /\ pipe' = "eof"
    /\ UNCHANGED <<pc, round, envoy_proc, exc, elapsed, unkilled, nblocks,
                   blocksAtStart, cfgBlocks, short, fail, slept>>
    /\ NotBatch

\* One second passes while start_envoy runs.
tick ==
    /\ pc \in {"loop", "readline"} /\ elapsed < MaxElapsed
    /\ elapsed' = elapsed + 1
    /\ UNCHANGED <<pc, round, envoy_proc, exc, pipe, unkilled, nblocks,
                   blocksAtStart, cfgBlocks, short, fail, slept>>
    /\ NotBatch

\* assert envoy_proc is not None; time.sleep(1)
collect_sleep ==
    /\ pc = "sleep1"
    /\ pc' = "grep"
    /\ UNCHANGED <<round, envoy_proc, exc, elapsed, pipe, unkilled, nblocks,
                   blocksAtStart, cfgBlocks, short, fail, slept>>
    /\ NotBatch

\* pid = grep_envoy_pid(envoy_path); assert pid != 0
collect_grep ==
    /\ pc = "grep"
    /\ \E found \in BOOLEAN :
         IF found
           THEN pc' = "read" /\ UNCHANGED <<exc, fail>>
           ELSE pc' = "except" /\ exc' = "AssertionError" /\ fail' = "notfound"
    /\ UNCHANGED <<round, envoy_proc, elapsed, pipe, unkilled, nblocks,
                   blocksAtStart, cfgBlocks, short, slept>>
    /\ NotBatch

\* vm_content = read_proc_status(pid): open() raises FileNotFoundError, an
\* OSError, when /proc/<pid>/status is gone.
collect_read ==
    /\ pc = "read"
    /\ \/ pc' = "write" /\ UNCHANGED <<exc, fail>>
       \/ pc' = "kill" /\ exc' = "OSError" /\ fail' = "status"
    /\ UNCHANGED <<round, envoy_proc, elapsed, pipe, unkilled, nblocks,
                   blocksAtStart, cfgBlocks, short, slept>>
    /\ NotBatch

\* write_report(report_path, key, vm_content)
collect_write ==
    /\ pc = "write"
    /\ nblocks' = nblocks + 1
    /\ cfgBlocks' = cfgBlocks + 1
    /\ pc' = "kill"
    /\ UNCHANGED <<round, envoy_proc, exc, elapsed, pipe, unkilled,
                   blocksAtStart, short, fail, slept>>
    /\ NotBatch

\* except AssertionError as err: print_exception, print_stack
collect_except_Reraise ==
    /\ pc = "except"
    /\ pc' = "kill"
    /\ UNCHANGED <<exc, round, envoy_proc, elapsed, pipe, unkilled, nblocks,
                   blocksAtStart, cfgBlocks, short, fail, slept>>
    /\ NotBatch

collect_except ==
    /\ pc = "except"
    /\ exc' = "none"
    /\ pc' = "kill"
    /\ UNCHANGED <<round, envoy_proc, elapsed, pipe, unkilled, nblocks,
                   blocksAtStart, cfgBlocks, short, fail, slept>>
    /\ NotBatch

\* finally: envoy_proc.kill()  -- AttributeError when envoy_proc is None; it
\* replaces whatever was in flight and leaves the function before the sleep.
collect_finally_kill_NoSignal ==
    /\ pc = "kill"
    /\ IF envoy_proc = 0
         THEN pc' = "aborted" /\ exc' = "AttributeError"
         ELSE pc' = "sleep2" /\ UNCHANGED exc
    /\ UNCHANGED <<unkilled, round, envoy_proc, elapsed, pipe, nblocks,
                   blocksAtStart, cfgBlocks, short, fail, slept>>
    /\ NotBatch

collect_finally_kill ==
    /\ pc = "kill"
    /\ IF envoy_proc = 0
         THEN /\ pc' = "aborted" /\ exc' = "AttributeError"
              /\ UNCHANGED unkilled
         ELSE /\ unkilled' = unkilled \ {envoy_proc}
              /\ pc' = "sleep2"
              /\ UNCHANGED exc
    /\ UNCHANGED <<round, envoy_proc, elapsed, pipe, nblocks,
                   blocksAtStart, cfgBlocks, short, fail, slept>>
    /\ NotBatch

\* finally: time.sleep(1); then the function returns, or the exception that
\* was not caught goes on to main, which has no handler.
collect_finally_sleep ==
    /\ pc = "sleep2"
    /\ slept' = TRUE
    /\ pc' = IF exc = "none" THEN "main" ELSE "aborted"
    /\ UNCHANGED <<round, envoy_proc, exc, elapsed, pipe, unkilled, nblocks,
                   blocksAtStart, cfgBlocks, short, fail>>
    /\ NotBatch

\* main after the last round: parse_report, analyze_report_data, append the
\* summary.  analyze_report_data divides by zero for a label of its list that
\* has fewer than 2 blocks.
main_report ==
    /\ pc = "main" /\ round = NumRounds
    /\ IF short \/ cfgBlocks < 2
         THEN pc' = "aborted" /\ exc' = "ZeroDivisionError"
         ELSE pc' = "done" /\ UNCHANGED exc
    /\ UNCHANGED <<round, envoy_proc, elapsed, pipe, unkilled, nblocks,
                   blocksAtStart, cfgBlocks, short, fail, slept>>
    /\ NotBatch

(***************************************************************************)
(* SpecReport: blocks are written with write_report, then parse_report     *)
(* reads the file back                                                     *)
(***************************************************************************)
MaxBlocks == 2   \* bound: blocks written before the file is parsed

\* The lines of /proc/<pid>/status that matter here, in the kernel's order
\* (proc(5)); Name and Pid stand for the lines read_proc_status drops.
StatusOrder == <<"Name", "Pid", "VmPeak", "VmSize", "VmHWM", "VmRSS",
                 "RssAnon", "RssFile", "RssShmem", "Threads">>
Metrics     == {"VmSize", "VmRSS", "RssAnon", "RssFile", "RssShmem", "Threads"}

\* Which of the memory/thread lines a status file has: all of them, none (a
\* zombie has no Vm/Rss lines), and partial ones.
Masks == { {"VmPeak", "VmSize", "VmHWM", "VmRSS", "RssAnon", "RssFile", "RssShmem", "Threads"},
           {},
           {"VmSize", "Threads"},
           {"VmPeak", "VmHWM"},
           {"VmRSS", "RssAnon", "RssFile", "RssShmem"} }

\* Two sets of values, so that a value of one round is told from another's.
Samples == {1, 2}
StatusValue(key, sample) ==
    IF sample = 1
    THEN [VmPeak |-> 300000, VmSize |-> 200000, VmHWM |-> 150, VmRSS |-> 100,
          RssAnon |-> 60, RssFile |-> 40, RssShmem |-> 0, Threads |-> 12][key]
    ELSE [VmPeak |-> 300500, VmSize |-> 200500, VmHWM |-> 190, VmRSS |-> 140,
          RssAnon |-> 95, RssFile |-> 45, RssShmem |-> 7, Threads |-> 9][key]

\* "%8lu": right-aligned in 8 columns
RECURSIVE PadLeft(_, _)
PadLeft(s, w) == IF Len(s) >= w THEN s ELSE PadLeft(<<" ">> \o s, w)

\* one line of /proc/<pid>/status, as the kernel prints it
StatusLine(key, sample) ==
    IF key = "Name" THEN <<"N", "a", "m", "e", ":", "\t", "e", "n", "v", "o", "y", "-", "s", "t", "a", "t", "i", "c", "\n">>
    ELSE IF key = "Pid" THEN <<"P", "i", "d", ":", "\t", "4", "7", "1", "1", "\n">>
    ELSE IF key = "Threads"
    THEN KeyText[key] \o <<":", "\t">> \o IntStr(StatusValue(key, sample)) \o <<"\n">>
    ELSE KeyText[key] \o <<":", "\t">> \o PadLeft(IntStr(StatusValue(key, sample)), 8) \o <<" ", "k", "B", "\n">>

ProcStatus(mask, sample) ==
    Concat([i \in 1..Len(StatusOrder) |->
              IF StatusOrder[i] \in mask \cup {"Name", "Pid"}
              THEN StatusLine(StatusOrder[i], sample) ELSE <<>>])

\* Labels <name>_<digits>_vm: two of main's, and one whose name itself
\* contains _<digits>_vm.
LabelInputs ==
    { [name |-> <<"v", "8">>, insts |-> <<"1">>],
      [name |-> <<"w", "a", "m", "r", "-", "5", "-", "1", "8", "-", "2", "2">>, insts |-> <<"3">>],
      [name |-> <<"x", "_", "1", "_", "v", "m">>, insts |-> <<"1", "2">>] }
LabelOf(l) == l.name \o <<"_">> \o l.insts \o <<"_", "v", "m">>

BlockInputs == [label : LabelInputs, mask : Masks, sample : Samples]

InitReport ==
    /\ BatchIdle /\ ReportIdle /\ DeltaIdle /\ AnalyzeIdle /\ GrepIdle

\* start_envoy_and_collect_vm_info, lines 96-97:
\* vm_content = read_proc_status(pid); write_report(report_path, key, vm_content)
do_write_report ==
    /\ parsed = NotRun /\ Len(written) < MaxBlocks
    /\ \E b \in BlockInputs :
         /\ file' = write_report(file, LabelOf(b.label),
                                 read_proc_status(ProcStatus(b.mask, b.sample)))
         /\ written' = Append(written, b)
    /\ UNCHANGED <<parsed, batchVars, deltaVars, analyzeVars, grepVars>>

\* main, line 246: report_data = parse_report(report_path)
do_parse_report ==
    /\ parsed = NotRun
    /\ parsed' = parse_report(file)
    /\ UNCHANGED <<file, written, batchVars, deltaVars, analyzeVars, grepVars>>

NextReport == do_write_report \/ do_parse_report

SpecReport == InitReport /\ [][NextReport]_vars

(***************************************************************************)
(* SpecDelta: calculate_delta on a value sequence                          *)
(***************************************************************************)
MaxData   == 3   \* bound: length of the value sequence
DeltaVals == {10, 13, 15, 100}

SeqsUpTo(S, n) == UNION {[1..k -> S] : k \in 0..n}

InitDelta ==
    /\ data \in SeqsUpTo(DeltaVals, MaxData)
    /\ delta = NotRun
    /\ BatchIdle /\ ReportIdle /\ AnalyzeIdle /\ GrepIdle

\* fill_a_line, line 163: key_delta = calculate_delta(key_data)
do_calculate_delta ==
    /\ delta = NotRun
    /\ delta' = calculate_delta(data)
    /\ UNCHANGED <<data, batchVars, reportVars, analyzeVars, grepVars>>

NextDelta == do_calculate_delta

SpecDelta == InitDelta /\ [][NextDelta]_vars

(***************************************************************************)
(* SpecAnalyze: analyze_report_data on the rounds parsed from a report     *)
(* that a run of main wrote                                                *)
(***************************************************************************)
MaxMissing == 3   \* bound: rounds of main that failed and wrote no block

\* the labels of main's 27 calls, three instance counts each
MainNames == << <<"v", "8">>, <<"w", "a", "s", "m", "t", "i", "m", "e">>, <<"w", "a", "m", "r", "-", "5", "-", "1", "8", "-", "2", "2">>, <<"w", "a", "m", "r", "-", "1", "-", "1", "-", "0">>, <<"w", "a", "m", "r", "-", "1", "-", "1", "-", "0", "-", "d", "i", "s">>,
                <<"w", "a", "m", "r", "-", "f", "b", "a", "c">>, <<"w", "a", "m", "r", "-", "f", "b", "a", "c", "-", "d", "i", "s">>, <<"w", "a", "m", "r", "-", "c", "l", "o", "n", "e">>, <<"w", "a", "m", "r", "-", "c", "l", "o", "n", "e", "-", "d", "i", "s">> >>
NameOfRound(r)  == MainNames[((r - 1) \div RoundsPerLabel) + 1]
InstsOfRound(r) == ((r - 1) % RoundsPerLabel) + 1

\* values of one metric over the three instance counts: growing for the
\* labels at odd places of main's list, falling and then staying for the others
LabelOfRound(r) == ((r - 1) \div RoundsPerLabel) + 1
Series(r) == IF LabelOfRound(r) % 2 = 1 THEN <<100, 140, 175>> ELSE <<175, 140, 140>>
MetricBase == [VmSize |-> 200000, VmRSS |-> 0, RssAnon |-> 3000, RssFile |-> 4000,
               RssShmem |-> 5000, Threads |-> 0]

\* the dict parse_report builds for the block of round r
RoundDict(r) ==
    [k \in {"vm_name", "vm_insts"} \cup Metrics |->
       IF k = "vm_name" THEN NameOfRound(r)
       ELSE IF k = "vm_insts" THEN IntStr(InstsOfRound(r))
       ELSE MetricBase[k] + Series(r)[InstsOfRound(r)]]

RECURSIVE ReportFrom(_, _)
ReportFrom(r, missing) ==
    IF r > NumRounds THEN <<>>
    ELSE (IF r \in missing THEN <<>> ELSE <<RoundDict(r)>>)
         \o ReportFrom(r + 1, missing)

\* the sets of at most MaxMissing rounds (0 fills the unused places)
MissingChoices ==
    {f \in [1..MaxMissing -> 0..NumRounds] :
        \A i \in 1..(MaxMissing - 1) : f[i] = 0 \/ f[i] < f[i + 1]}

InitAnalyze ==
    /\ \E f \in MissingChoices :
         report_data = ReportFrom(1, {f[i] : i \in 1..MaxMissing})
    /\ summary = NotRun /\ appended = FALSE
    /\ BatchIdle /\ ReportIdle /\ DeltaIdle /\ GrepIdle

\* main, lines 247-252: report_result = analyze_report_data(report_data),
\* print, and append it to the report file; an exception ends main first
do_analyze_report_data ==
    /\ summary = NotRun
    /\ summary' = analyze_report_data(report_data)
    /\ appended' = (summary'.status = "ok")
    /\ UNCHANGED <<report_data, batchVars, reportVars, deltaVars, grepVars>>

NextAnalyze == do_analyze_report_data

SpecAnalyze == InitAnalyze /\ [][NextAnalyze]_vars

(***************************************************************************)
(* SpecGrep: grep_envoy_pid on a process listing                           *)
(***************************************************************************)
MaxRows == 3   \* bound: rows of the listing after its header

PsHeader == <<"U", "S", "E", "R", " ", "P", "I", "D", " ", "%", "C", "P", "U", " ", "%", "M", "E", "M", " ", "V", "S", "Z", " ", "R", "S", "S", " ", "T", "T", "Y", " ", "S", "T", "A", "T", " ", "S", "T", "A", "R", "T", " ", "T", "I", "M", "E", " ", "C", "O", "M", "M", "A", "N", "D">>
\* rows: two envoys started from the path, a process of another path, a
\* process with the path as an argument only, and a row of three fields
PsRows ==
    { <<"r", "o", "o", "t", " ", " ", "4", "7", "1", "1", " ", " ", "0", ".", "0", " ", " ", "0", ".", "1", " ", "1", "0", "0", " ", "5", "0", " ", "?", " ", " ", "S", "s", "l", " ", "1", "0", ":", "0", "0", " ", "0", ":", "0", "0", " ", "/", "e", "/", "e", "n", "v", "o", "y", "-", "s", "t", "a", "t", "i", "c", " ", "-", "c", " ", "a", ".", "y", "a", "m", "l">>,
      <<"r", "o", "o", "t", " ", " ", "4", "7", "1", "2", " ", "0", ".", "0", " ", "0", ".", "1", " ", "1", "0", "0", " ", "5", "0", " ", "?", " ", "S", "s", "l", " ", "1", "0", ":", "0", "0", " ", "0", ":", "0", "0", " ", "/", "e", "/", "e", "n", "v", "o", "y", "-", "s", "t", "a", "t", "i", "c", " ", "-", "c", " ", "b", ".", "y", "a", "m", "l">>,
      <<"r", "o", "o", "t", " ", " ", " ", " ", " ", "1", " ", "0", ".", "0", " ", "0", ".", "0", " ", "1", "0", " ", "5", " ", "?", " ", "S", "s", " ", "0", "9", ":", "0", "0", " ", "0", ":", "0", "1", " ", "/", "s", "b", "i", "n", "/", "i", "n", "i", "t">>,
      <<"r", "o", "o", "t", " ", " ", " ", " ", "9", "9", " ", "0", ".", "0", " ", "0", ".", "0", " ", "1", "0", " ", "5", " ", "p", "t", "s", "/", "0", " ", "S", "+", " ", "1", "0", ":", "0", "1", " ", "0", ":", "0", "0", " ", "t", "a", "i", "l", " ", "/", "e", "/", "e", "n", "v", "o", "y", "-", "s", "t", "a", "t", "i", "c", ".", "l", "o", "g">>,
      <<"r", "o", "o", "t", " ", "7", " ", "Z">> }
PathInputs == { <<"/", "e", "/", "e", "n", "v", "o", "y", "-", "s", "t", "a", "t", "i", "c">>, <<"/", "x", "/", "e", "n", "v", "o", "y", "-", "s", "t", "a", "t", "i", "c">> }

InitGrep ==
    /\ \E rows \in SeqsUpTo(PsRows, MaxRows) :
         ps_out = Join(<<"\n">>, <<PsHeader>> \o rows) \o <<"\n">>
    /\ envoy_path \in PathInputs
    /\ grep_result = NotRun
    /\ BatchIdle /\ ReportIdle /\ DeltaIdle /\ AnalyzeIdle

\* start_envoy_and_collect_vm_info, line 92: pid = grep_envoy_pid(envoy_path)
do_grep_envoy_pid ==
    /\ grep_result = NotRun
    /\ grep_result' = grep_envoy_pid(ps_out, envoy_path)
    /\ UNCHANGED <<ps_out, envoy_path, batchVars, reportVars, deltaVars, analyzeVars>>

NextGrep == do_grep_envoy_pid

SpecGrep == InitGrep /\ [][NextGrep]_vars

Next ==
    \/ main_call_round
    \/ start_envoy_spawn
    \/ start_envoy_loop
    \/ start_envoy_readline
    \/ child_write
    \/ child_close
    \/ tick
    \/ collect_sleep
    \/ collect_grep
    \/ collect_read
    \/ collect_write
    \/ collect_except
    \/ collect_finally_kill
    \/ collect_finally_sleep
    \/ main_report

Spec == Init /\ [][Next]_vars

\* The controller is a running process and the clock advances; the child is
\* under no obligation to write or to close its output.
Controller ==
    \/ main_call_round \/ start_envoy_spawn \/ start_envoy_loop
    \/ start_envoy_readline \/ collect_sleep \/ collect_grep \/ collect_read
    \/ collect_write \/ collect_except \/ collect_finally_kill
    \/ collect_finally_sleep \/ main_report

FairSpec == Spec /\ WF_vars(Controller) /\ WF_vars(tick)

(***************************************************************************)
(* Claims about the batch                                                  *)
(***************************************************************************)
StartEnvoyPcs == {"loop", "readline"}
RoundOver     == round > 0 /\ pc \in {"main", "aborted", "done"}
\* the round ended by raising into main (which has no handler)
RoundRaised   == pc = "aborted" /\ exc # "ZeroDivisionError"

\* C1: whichever per-round failure happened (readiness timeout, locator
\* returned 0, status file could not be opened), the round does not raise
\* into main: the batch goes on.
C1_NoRoundFailureAbortsBatch ==
    fail \in {"timeout", "notfound", "status"} => ~RoundRaised

\* C2: once a round has finished or raised, no child spawned by it (or by an
\* earlier round) is left without having been sent kill.
C2_ChildKilledWhenRoundEnds ==
    RoundOver => unkilled = {}

\* C3: start_envoy always ends: once it is in its read loop it eventually
\* leaves it, by returning the handle or by the launch-timeout assertion,
\* whatever the child does.
C3_StartEnvoyEnds ==
    (pc \in StartEnvoyPcs) ~> (pc \notin StartEnvoyPcs)

\* C4: in a round where start_envoy returned the handle and grep_envoy_pid
\* returned 0, no block is appended, the status is never read, the round does
\* not raise, and when it is over its child has been killed, the pause has
\* been taken, control is back in main and the next round can be called.
C4_NotFoundRound ==
    fail = "notfound" =>
        /\ envoy_proc = round
        /\ nblocks = blocksAtStart
        /\ pc \notin {"read", "write"}
        /\ ~RoundRaised
        /\ (RoundOver => round \notin unkilled /\ slept)
        /\ (RoundOver /\ round < NumRounds => pc = "main" /\ ENABLED main_call_round)

C4_Witness ==
    /\ fail = "notfound" /\ pc = "main" /\ round \in 1..(NumRounds - 1)
    /\ slept /\ unkilled = {}

\* C10: at most one child is alive and not yet killed, and it is the child of
\* the round being run; when control is back in main after a round, and when
\* the next round is about to spawn, every earlier child has been sent kill
\* and the pause after the kill has been taken.
C10_OneChildAtATime ==
    /\ Cardinality(unkilled) <= 1
    /\ (pc \notin {"aborted"} => unkilled \subseteq {round})
    /\ (pc = "spawn" => unkilled = {})
    /\ (pc = "main" /\ round > 0 => unkilled = {} /\ slept)

C10_Witness ==
    round >= 2 /\ unkilled = {round} /\ pc = "sleep1"

(***************************************************************************)
(* Claims about write_report / parse_report                                *)
(***************************************************************************)
\* the record a written block stands for: name and instance count of its
\* label, and the metrics its status text has
ExpectedRound(b) ==
    LET present == b.mask \cap Metrics
    IN  [k \in {"vm_name", "vm_insts"} \cup present |->
           IF k = "vm_name" THEN b.label.name
           ELSE IF k = "vm_insts" THEN b.label.insts
           ELSE StatusValue(k, b.sample)]

\* C5: parsing the file after N blocks were written gives N records in the
\* order written; record i has the name and instance count of label i and
\* exactly the metrics of {VmSize, VmRSS, RssAnon, RssFile, RssShmem, Threads}
\* that text i has, with their values.
C5_RoundTrip ==
    parsed # NotRun =>
        /\ parsed.status = "ok"
        /\ Len(parsed.value) = Len(written)
        /\ \A i \in 1..Len(written) : parsed.value[i] = ExpectedRound(written[i])

\* two blocks, the second lacking a metric the first has
C5_Witness ==
    /\ parsed # NotRun /\ Len(written) >= 2
    /\ "VmSize" \in written[1].mask /\ "VmSize" \notin written[2].mask
    /\ written[2].label.name = <<"x", "_", "1", "_", "v", "m">>

(***************************************************************************)
(* Claims about calculate_delta                                            *)
(***************************************************************************)
\* C7: for a sequence of n >= 2 integers calculate_delta returns n elements:
\* the n-1 successive differences in order, then their mean, the quotient of
\* their sum by n-1, which equals (last - first) / (n-1); <<10, 15, 13>>
\* gives 5, -2 and 3/2 = 1.5.
C7_DeltasAndMean ==
    (delta # NotRun /\ Len(data) >= 2) =>
        LET n == Len(data) IN
        /\ delta.status = "ok"
        /\ Len(delta.value) = n
        /\ \A i \in 1..(n - 1) : delta.value[i] = data[i + 1] - data[i]
        /\ delta.value[n].den = n - 1
        /\ delta.value[n].num = data[n] - data[1]
        /\ (data = <<10, 15, 13>> =>
              /\ delta.value[1] = 5 /\ delta.value[2] = -2
              /\ 2 * delta.value[3].num = 3 * delta.value[3].den)

C7_Witness ==
    delta # NotRun /\ data = <<10, 15, 13>>

(***************************************************************************)
(* Claims about analyze_report_data                                        *)
(***************************************************************************)
NumRoundsOf(rd, name) == Cardinality({i \in 1..Len(rd) : rd[i]["vm_name"] = name})
LabelsIn(rd)          == {rd[i]["vm_name"] : i \in 1..Len(rd)}
SomeKeyShort          == \E k \in 1..Len(Keys) : NumRoundsOf(report_data, Keys[k]) < 2

\* the row the table is to have for a label and a metric: the label, the
\* metric, the raw values in round order, the successive deltas, the mean
ExpectedRow(rd, name, metric) ==
    LET rs == RoundsOf(rd, name)
        n  == Len(rs)
        v  == [i \in 1..n |-> rs[i][metric]]
    IN  <<"|">> \o name \o <<"|">> \o KeyText[metric] \o <<"|">>
        \o Join(<<"|">>, [i \in 1..n |-> IntStr(v[i])]) \o <<"|">>
        \o Join(<<"|">>, [i \in 1..(n - 1) |-> IntStr(v[i + 1] - v[i])]
                         \o <<FloatStr([num |-> v[n] - v[1], den |-> n - 1])>>)
        \o <<"|">> \o <<"\n">>

SummaryRows == 
    LET lines == FileLines(summary.value)
    IN  SubSeq(lines, Len(FileLines(SummaryHeader)) + 1, Len(lines))

\* C6: the summary has exactly one row for every label that has rounds in the
\* report and every metric of VmSize, VmRSS, RssAnon, RssFile, RssShmem,
\* Threads, and the row is |label|metric|values|deltas|mean|.
C6_RowPerLabelAndMetric ==
    (summary # NotRun /\ summary.status = "ok") =>
        /\ \A name \in LabelsIn(report_data), metric \in Metrics :
             Cardinality({i \in 1..Len(SummaryRows) :
                            SummaryRows[i] = ExpectedRow(report_data, name, metric)}) = 1
        /\ Len(SummaryRows) = Cardinality(LabelsIn(report_data)) * Cardinality(Metrics)

PsRowsOf(out)     == Split(out, "\n")
CommandHas(row, path) ==
    Len(Fields(row)) >= 11 /\ StartsWith(Fields(row)[11], path)

\* C9: grep_envoy_pid never raises; it returns 0 when no row has a command
\* field (the 11th) that starts with the path, and otherwise the PID field
\* (the 2nd) of the first such row.
C9_FirstMatchOrZero ==
    grep_result # NotRun =>
        LET rows == PsRowsOf(ps_out)
            hits == {i \in 1..Len(rows) : CommandHas(rows[i], envoy_path)}
        IN  /\ grep_result.status = "ok"
            /\ IF hits = {}
               THEN ~grep_result.found
               ELSE /\ grep_result.found
                    /\ grep_result.pid =
                         Fields(rows[CHOOSE i \in hits : \A h \in hits : i <= h])[2]

====
